---- MODULE Spec2Model ----
(***************************************************************************)
(* Translate.py: the article pipeline (extract, detect, translate,         *)
(* summarize, keywords), its output suppressor and its entry point.        *)
(* Texts are sequences of one-character strings; titles, language codes,   *)
(* keywords and messages are strings.                                      *)
(***************************************************************************)
EXTENDS Naturals, Sequences, FiniteSets, TLC

VARIABLES
    pc,               \* position of the running function
    argc,             \* len(sys.argv)
    sys_stdout,       \* what sys.stdout points to
    sys_stderr,       \* what sys.stderr points to
    self_stdout,      \* SuppressOutput.stdout
    self_stderr,      \* SuppressOutput.stderr
    stdout0,          \* the stream sys.stdout pointed to when the process started
    stderr0,          \* the stream sys.stderr pointed to when the process started
    written,          \* per stream, what has been written to it
    discarded,        \* number of writes that went to os.devnull
    title, author, date, goose_keywords,   \* locals of process_url
    body,             \* the content extract_with_goose returned
    content,          \* local `content` of process_url (reassigned by translation)
    lang,             \* local `lang`
    translated_title, \* local `translated_title`
    tt_ret,           \* what translate_title returned
    tt_failed,        \* translator.translate raised inside translate_title
    summary,          \* local `summary`
    sum_arg,          \* the text handed to summarize_text
    kw_arg,           \* the text handed to extract_keywords
    cands,            \* what KeyBERT returned inside extract_keywords
    keywords,         \* local `keywords`
    genCalls,         \* the units handed to model.generate, in call order
    calls,            \* the stages invoked so far, in order, with their outcome
    result            \* what process_url returned

vars == << pc, argc, sys_stdout, sys_stderr, self_stdout, self_stderr, stdout0,
           stderr0, written, discarded, title, author, date, goose_keywords,
           body, content, lang, translated_title, tt_ret, tt_failed, summary,
           sum_arg, kw_arg, cands, keywords, genCalls, calls, result >>

----------------------------------------------------------------------------
(* Bounds of the model *)

MaxLen == 4          \* longest text given to translate_text
ModelMaxLen == 3     \* the tokenizer's maximum input length, in characters
MaxHints == 2        \* longest list of hint keywords
MaxWrites == 3       \* most writes a suppressed block makes

----------------------------------------------------------------------------
(* Texts *)

Terminators == {".", "!", "?"}
Whitespace == {" ", "\t", "\n"}
Letters == {"a", "b"}
Chars == Letters \cup {".", "?"} \cup Whitespace

Min(a, b) == IF a < b THEN a ELSE b

RECURSIVE SeqsUpTo(_, _)
SeqsUpTo(S, n) ==
    IF n = 0 THEN {<< >>}
    ELSE LET shorter == SeqsUpTo(S, n - 1)
         IN  shorter \cup {Append(s, x) : s \in {t \in shorter : Len(t) = n - 1}, x \in S}

Texts == SeqsUpTo(Chars, MaxLen)

\* "not_found", the sentinel extract_with_goose substitutes for a missing field
NotFound == << "n", "o", "t", "_", "f", "o", "u", "n", "d" >>

\* first index >= i of text that does not hold a space (Len(text) + 1 if none)
RECURSIVE SkipSpaces(_, _)
SkipSpaces(text, i) ==
    IF i <= Len(text) /\ text[i] = " " THEN SkipSpaces(text, i + 1) ELSE i

\* re.split(r'(?<=[.!?]) +', text), scanning from i with the current piece
\* starting at start
RECURSIVE SplitFrom(_, _, _, _)
SplitFrom(text, i, start, acc) ==
    IF i > Len(text)
    THEN Append(acc, SubSeq(text, start, Len(text)))
    ELSE IF text[i] = " " /\ i > 1 /\ text[i - 1] \in Terminators
         THEN LET j == SkipSpaces(text, i)
              IN  SplitFrom(text, j, j, Append(acc, SubSeq(text, start, i - 1)))
         ELSE SplitFrom(text, i + 1, start, acc)

re_split(text) == SplitFrom(text, 1, 1, << >>)

\* tokenizer([sentence], truncation=True): a unit longer than the model's
\* maximum input is cut, not rejected
tokenizer(sentence) == SubSeq(sentence, 1, Min(Len(sentence), ModelMaxLen))

\* the translation model's lexicon: what one source character decodes to
Lexicon(c) ==
    CASE c = "a" -> "x"
      [] c = "b" -> "y"
      [] c \in Whitespace -> " "
      [] OTHER -> c

\* model.generate followed by tokenizer.decode, for one unit
generate(sentence) ==
    LET inputs == tokenizer(sentence)
    IN  [i \in 1..Len(inputs) |-> Lexicon(inputs[i])]

\* " ".join(chunks)
RECURSIVE join(_)
join(chunks) ==
    IF Len(chunks) = 0 THEN << >>
    ELSE IF Len(chunks) = 1 THEN chunks[1]
    ELSE chunks[1] \o << " " >> \o join(Tail(chunks))

TranslateLoopReversed(sentences, i, translated_chunks, generated) ==
    [chunks |-> << generate(sentences[i]) >> \o translated_chunks,
     generated |-> Append(generated, sentences[i])]

\* one iteration of the for loop of translate_text
TranslateLoopBody(sentences, i, translated_chunks, generated) ==
    [chunks |-> Append(translated_chunks, generate(sentences[i])),
     generated |-> Append(generated, sentences[i])]

RECURSIVE TranslateLoop(_, _, _, _)
TranslateLoop(sentences, i, translated_chunks, generated) ==
    IF i > Len(sentences)
    THEN [chunks |-> translated_chunks, generated |-> generated]
    ELSE LET step == TranslateLoopBody(sentences, i, translated_chunks, generated)
         IN  TranslateLoop(sentences, i + 1, step.chunks, step.generated)

\* translate_text(text, tokenizer, model): the text returned and the units
\* the model was called on
translate_text(text) ==
    LET sentences == re_split(text)
        loop == TranslateLoop(sentences, 1, << >>, << >>)
    IN  [out |-> join(loop.chunks), generated |-> loop.generated]

----------------------------------------------------------------------------
(* Keywords *)

top_n == 5           \* the number of candidates asked of KeyBERT
KeywordLimit == 5    \* the slice [:5] of extract_keywords

HintWords == {"ai", "ml"}
CandWords == {"ml", "future", "data", "web", "news"}

HintLists == SeqsUpTo(HintWords, MaxHints)
CandLists == SeqsUpTo(CandWords, top_n)

ToSet(seq) == {seq[i] : i \in DOMAIN seq}

\* list(s) for a set s: its elements once each, in an order the set chooses
RECURSIVE Orderings(_)
Orderings(S) ==
    IF S = {} THEN {<< >>}
    ELSE UNION {{<< x >> \o rest : rest \in Orderings(S \ {x})} : x \in S}

Take(l, n) == SubSeq(l, 1, Min(Len(l), n))

extract_keywords_no_dedup(hints, kw) ==
    {Take(hints \o kw, KeywordLimit)}

\* extract_keywords(text, goose_keywords), kw being what KeyBERT returned for
\* text: every list the function can return
extract_keywords(hints, kw) ==
    {Take(combined_keywords, KeywordLimit) :
        combined_keywords \in Orderings(ToSet(hints \o kw))}

----------------------------------------------------------------------------
(* Streams *)

Targets == {"tty", "pipe", "file"}       \* what a caller can connect a stream to
DevNull == "devnull"             \* open(os.devnull, 'w')

\* a write of item to stream: os.devnull keeps nothing
emit(stream, item) ==
    IF stream = DevNull
    THEN /\ discarded' = discarded + 1
         /\ UNCHANGED written
    ELSE /\ written' = [written EXCEPT ![stream] = Append(@, item)]
         /\ UNCHANGED discarded

SuppressOutput_enter_stdout_kept(out, err) ==
    [self_stdout |-> out, self_stderr |-> err, sys_stdout |-> out, sys_stderr |-> DevNull]

\* SuppressOutput.__enter__, given what sys.stdout and sys.stderr point to
SuppressOutput_enter(out, err) ==
    [self_stdout |-> out, self_stderr |-> err, sys_stdout |-> DevNull, sys_stderr |-> DevNull]

SuppressOutput_exit_stderr_from_stdout(saved_out, saved_err) ==
    [sys_stdout |-> saved_out, sys_stderr |-> saved_out]

\* SuppressOutput.__exit__, given self.stdout and self.stderr
SuppressOutput_exit(saved_out, saved_err) ==
    [sys_stdout |-> saved_out, sys_stderr |-> saved_err]

----------------------------------------------------------------------------
(* Variable groups and initial values *)

streams == << sys_stdout, sys_stderr, self_stdout, self_stderr >>
io == << written, discarded >>
env == << argc, stdout0, stderr0 >>
article == << title, author, date, goose_keywords, body >>
titleVars == << translated_title, tt_ret, tt_failed >>
kwVars == << kw_arg, cands, keywords >>
sumVars == << summary, sum_arg >>

NoResult == [status |-> "pending"]

StreamsInit ==
    /\ sys_stdout \in Targets
    /\ sys_stderr \in Targets
    /\ stdout0 = sys_stdout
    /\ stderr0 = sys_stderr
    /\ self_stdout = "unset"
    /\ self_stderr = "unset"
    /\ written = [t \in Targets |-> << >>]
    /\ discarded = 0

LocalsInit ==
    /\ title = "" /\ author = "" /\ date = ""
    /\ lang = "" /\ translated_title = "" /\ tt_ret = "" /\ tt_failed = FALSE
    /\ summary = << >> /\ sum_arg = << >> /\ kw_arg = << >>
    /\ cands = << >> /\ keywords = << >>
    /\ genCalls = << >> /\ calls = << >>
    /\ result = NoResult

----------------------------------------------------------------------------
(* Specification of translate_text alone, on every text up to MaxLen *)

InitTranslate ==
    /\ StreamsInit
    /\ LocalsInit
    /\ argc = 2
    /\ sys_stdout = "tty" /\ sys_stderr = "tty"
    /\ pc = "translate_text"
    /\ goose_keywords = << >>
    /\ body \in Texts
    /\ content = body

TranslateText ==
    /\ pc = "translate_text"
    /\ LET r == translate_text(content)
       IN  /\ content' = r.out
           /\ genCalls' = r.generated
    /\ pc' = "translated"
    /\ UNCHANGED << streams, io, env, article, lang, titleVars, sumVars, kwVars,
                    calls, result >>

NextTranslate == TranslateText

SpecTranslate == InitTranslate /\ [][NextTranslate]_vars

----------------------------------------------------------------------------
(* Specification of extract_keywords alone, on every pair of lists *)

InitKeywords ==
    /\ StreamsInit
    /\ LocalsInit
    /\ argc = 2
    /\ sys_stdout = "tty" /\ sys_stderr = "tty"
    /\ pc = "extract_keywords"
    /\ goose_keywords \in HintLists
    /\ body = << "a" >>
    /\ content = body

ExtractKeywords ==
    /\ pc = "extract_keywords"
    /\ \E kw \in CandLists :
          /\ cands' = kw
          /\ keywords' \in extract_keywords(goose_keywords, kw)
    /\ kw_arg' = content
    /\ pc' = "keywords"
    /\ UNCHANGED << streams, io, env, article, content, lang, titleVars,
                    sumVars, genCalls, calls, result >>

NextKeywords == ExtractKeywords

SpecKeywords == InitKeywords /\ [][NextKeywords]_vars

----------------------------------------------------------------------------
(* Specification of SuppressOutput around a block that may write and may raise *)

InitSuppress ==
    /\ StreamsInit
    /\ LocalsInit
    /\ argc = 2
    /\ pc = "with"
    /\ goose_keywords = << >>
    /\ body = << >>
    /\ content = << >>

locals == << article, content, lang, titleVars, sumVars, kwVars, genCalls, calls, result >>

\* with SuppressOutput(): entering the block
enter(next) ==
    /\ LET e == SuppressOutput_enter(sys_stdout, sys_stderr)
       IN  /\ self_stdout' = e.self_stdout
           /\ self_stderr' = e.self_stderr
           /\ sys_stdout' = e.sys_stdout
           /\ sys_stderr' = e.sys_stderr
    /\ pc' = next
    /\ UNCHANGED << io, env, locals >>

\* with SuppressOutput(): leaving the block; __exit__ returns None, so an
\* exception of the block goes on to the caller
exit(next) ==
    /\ LET x == SuppressOutput_exit(self_stdout, self_stderr)
       IN  /\ sys_stdout' = x.sys_stdout
           /\ sys_stderr' = x.sys_stderr
    /\ pc' = next
    /\ UNCHANGED << self_stdout, self_stderr, io, env, locals >>

BlockEnter ==
    /\ pc = "with"
    /\ enter("block")

BlockWrite ==
    /\ pc = "block"
    /\ discarded < MaxWrites
    /\ \E stream \in {sys_stdout, sys_stderr} : emit(stream, [json |-> FALSE, obj |-> "diagnostic"])
    /\ UNCHANGED << pc, streams, env, locals >>

BlockCompletes ==
    /\ pc = "block"
    /\ pc' = "block_completed"
    /\ UNCHANGED << streams, io, env, locals >>

BlockRaises ==
    /\ pc = "block"
    /\ pc' = "block_raised"
    /\ UNCHANGED << streams, io, env, locals >>

BlockExit ==
    \/ /\ pc = "block_completed"
       /\ exit("after_with")
    \/ /\ pc = "block_raised"
       /\ exit("propagated")

NextSuppress == BlockEnter \/ BlockWrite \/ BlockCompletes \/ BlockRaises \/ BlockExit

SpecSuppress == InitSuppress /\ [][NextSuppress]_vars

----------------------------------------------------------------------------
(* The stages of process_url *)

\* what the article Goose extracted can hold
ArticleTitles == {"", "Le Chat"}
ArticleAuthors == {<< >>, << "Ann", "Bob" >>}
ArticleDates == {"", "2025-01-09"}
ArticleTexts == {<< >>, << "a", ".", " ", "b", "?" >>}
ArticleKeywords == {<< >>, << "ai", "ml" >>}

\* what langdetect can answer
Languages == {"en", "fr"}

\* what KeyBERT and the summarizer can answer in a pipeline run
PipelineCands == {<< >>, << "ml", "future" >>}
SummaryOutputs == {<< "x", "." >>, << " ", "\"", "x", "\\", "'", "y", "'", " " >>}

\* str(e) of the exception a stage raises
ExceptionMessages == {"connection failed", "out of memory"}

TranslationNotAvailable == "Translation not available."
MainContentNotFound == "Main content not found."

ErrorResult(msg) == [status |-> "error", error |-> msg]

\* extract_with_goose(url), given the article Goose returned
extract_with_goose(a) ==
    [title |-> IF a.title = "" THEN "not_found" ELSE a.title,
     author |-> IF Len(a.authors) > 0 THEN a.authors[1] ELSE "not_found",
     date |-> IF a.publish_date = "" THEN "not_found" ELSE a.publish_date,
     content |-> IF a.cleaned_text = << >> THEN NotFound ELSE a.cleaned_text,
     goose_keywords |-> a.meta_keywords]

content_not_found_when_empty(c) == c = << >>

\* the test `content == "not_found"` of process_url
content_not_found(c) == c = NotFound

needs_translation_always(l) == TRUE

\* the test `lang != "en"` of process_url
needs_translation(l) == l # "en"

title_fallback_only_empty(translated, original) ==
    IF translated = "" THEN TranslationNotAvailable ELSE translated

\* the test `not translated_title or translated_title == title` of
\* process_url and the assignment it guards
title_fallback(translated, original) ==
    IF translated = "" \/ translated = original
    THEN TranslationNotAvailable
    ELSE translated

\* text.replace(old, '') for a pattern old of one or two characters
RECURSIVE remove(_, _)
remove(text, old) ==
    IF Len(text) < Len(old) THEN text
    ELSE IF SubSeq(text, 1, Len(old)) = old
         THEN remove(SubSeq(text, Len(old) + 1, Len(text)), old)
         ELSE << text[1] >> \o remove(Tail(text), old)

\* text.strip()
RECURSIVE strip(_)
strip(text) ==
    IF Len(text) = 0 THEN text
    ELSE IF text[1] \in Whitespace THEN strip(Tail(text))
    ELSE IF text[Len(text)] \in Whitespace THEN strip(SubSeq(text, 1, Len(text) - 1))
    ELSE text

\* clean_text(text)
clean_text(text) ==
    strip(remove(remove(remove(remove(text, << "\\", "\"" >>), << "\\", "'" >>),
                        << "\"" >>), << "'" >>))

except_propagates(msg) == [pc |-> "propagated", result |-> NoResult]

except_fixed_message(msg) == [pc |-> "returned", result |-> ErrorResult("Processing failed.")]

\* the handler `except Exception as e` of process_url, msg being str(e)
except(msg) == [pc |-> "returned", result |-> ErrorResult(msg)]

Call(stage) == [stage |-> stage, outcome |-> "ok", msg |-> ""]
Raised(stage, msg) == [stage |-> stage, outcome |-> "raise", msg |-> msg]

\* a stage raises: the handler of process_url takes over
raise(stage) ==
    \E msg \in ExceptionMessages :
        /\ calls' = Append(calls, Raised(stage, msg))
        /\ pc' = except(msg).pc
        /\ result' = except(msg).result

----------------------------------------------------------------------------
(* Specification of a run of main *)

Init ==
    /\ StreamsInit
    /\ LocalsInit
    /\ argc \in {1, 2, 3}
    /\ pc = "main"
    /\ goose_keywords = << >>
    /\ body = << >>
    /\ content = << >>

UsageJson == [json |-> TRUE, obj |-> ErrorResult("Usage: python extract_v5.py <URL>")]
LoadErrorJson == [json |-> TRUE, obj |-> ErrorResult("Model loading failed")]

\* main with a wrong number of arguments
main_usage ==
    /\ pc = "main"
    /\ argc # 2
    /\ emit(sys_stdout, UsageJson)
    /\ pc' = "done"
    /\ UNCHANGED << streams, env, locals >>

\* load_models(): the models load, or the error is printed and the process exits
load_models ==
    /\ pc = "main"
    /\ argc = 2
    /\ \/ /\ pc' = "with"
          /\ UNCHANGED io
       \/ /\ emit(sys_stdout, LoadErrorJson)
          /\ pc' = "exited"
    /\ UNCHANGED << streams, env, locals >>

main_enter ==
    /\ pc = "with"
    /\ enter("extract")

\* title, author, date, content, goose_keywords = extract_with_goose(url)
stage_extract ==
    /\ pc = "extract"
    /\ \/ /\ \E t \in ArticleTitles, au \in ArticleAuthors, d \in ArticleDates,
                tx \in ArticleTexts, mk \in ArticleKeywords :
                LET r == extract_with_goose([title |-> t, authors |-> au,
                                             publish_date |-> d, cleaned_text |-> tx,
                                             meta_keywords |-> mk])
                IN  /\ title' = r.title
                    /\ author' = r.author
                    /\ date' = r.date
                    /\ body' = r.content
                    /\ content' = r.content
                    /\ goose_keywords' = r.goose_keywords
                    /\ IF content_not_found(r.content)
                       THEN /\ result' = ErrorResult(MainContentNotFound)
                            /\ pc' = "returned"
                       ELSE /\ result' = result
                            /\ pc' = "detect"
          /\ calls' = Append(calls, Call("extract_with_goose"))
       \/ /\ raise("extract_with_goose")
          /\ UNCHANGED << article, content >>
    /\ UNCHANGED << streams, io, env, lang, titleVars, sumVars, kwVars, genCalls >>

\* lang = detect(content); translated_title = title
stage_detect ==
    /\ pc = "detect"
    /\ \/ /\ \E l \in Languages :
                /\ lang' = l
                /\ pc' = IF needs_translation(l) THEN "translate_title" ELSE "summarize"
          /\ translated_title' = title
          /\ calls' = Append(calls, Call("detect"))
          /\ UNCHANGED result
       \/ /\ raise("detect")
          /\ UNCHANGED << lang, translated_title >>
    /\ UNCHANGED << streams, io, env, article, content, tt_ret, tt_failed, sumVars,
                    kwVars, genCalls >>

\* what translator.translate(title, src, dest='en') can answer
TranslatorOutputs(t) == {"", t, "The Cat"}

\* translated_title = translate_title(translated_title, lang): the translator
\* answers, or it raises and translate_title prints the error and returns the title
stage_translate_title ==
    /\ pc = "translate_title"
    /\ \/ /\ \E t \in TranslatorOutputs(translated_title) :
                /\ translated_title' = t
                /\ tt_ret' = t
          /\ tt_failed' = FALSE
          /\ UNCHANGED io
       \/ /\ emit(sys_stdout, [json |-> FALSE, obj |-> "Google Translate error"])
          /\ tt_ret' = translated_title
          /\ tt_failed' = TRUE
          /\ UNCHANGED translated_title
    /\ calls' = Append(calls, Call("translate_title"))
    /\ pc' = "translate_text"
    /\ UNCHANGED << streams, env, article, content, lang, sumVars, kwVars,
                    genCalls, result >>

\* content = translate_text(content, ...), then the test of the translated
\* title; the model may raise on any unit, after the calls on the units before it
stage_translate_text ==
    /\ pc = "translate_text"
    /\ \/ /\ LET r == translate_text(content)
             IN  /\ content' = r.out
                 /\ genCalls' = r.generated
          /\ translated_title' = title_fallback(translated_title, title)
          /\ calls' = Append(calls, Call("translate_text"))
          /\ pc' = "summarize"
          /\ UNCHANGED result
       \/ /\ raise("translate_text")
          /\ \E k \in 1..Len(re_split(content)) :
                genCalls' = SubSeq(re_split(content), 1, k)
          /\ UNCHANGED << content, translated_title >>
    /\ UNCHANGED << streams, io, env, article, lang, tt_ret, tt_failed, sumVars, kwVars >>

\* summary = clean_text(summarize_text(content, ...))
stage_summarize ==
    /\ pc = "summarize"
    /\ \/ /\ \E s \in SummaryOutputs : summary' = clean_text(s)
          /\ sum_arg' = content
          /\ calls' = calls \o << Call("summarize_text"), Call("clean_text") >>
          /\ pc' = "keywords"
          /\ UNCHANGED result
       \/ /\ raise("summarize_text")
          /\ sum_arg' = content
          /\ UNCHANGED summary
    /\ UNCHANGED << streams, io, env, article, content, lang, titleVars, kwVars, genCalls >>

\* keywords = extract_keywords(content, goose_keywords), then the record returned
stage_keywords ==
    /\ pc = "keywords"
    /\ \/ /\ \E kw \in PipelineCands :
                /\ cands' = kw
                /\ \E ks \in extract_keywords(goose_keywords, kw) :
                      /\ keywords' = ks
                      /\ result' = [status |-> "ok",
                                    title |-> title,
                                    translated_title |-> translated_title,
                                    author |-> author,
                                    date |-> date,
                                    keywords |-> ks,
                                    text |-> summary]
          /\ calls' = Append(calls, Call("extract_keywords"))
          /\ pc' = "returned"
       \/ /\ raise("extract_keywords")
          /\ UNCHANGED << cands, keywords >>
    /\ kw_arg' = content
    /\ UNCHANGED << streams, io, env, article, content, lang, titleVars, sumVars, genCalls >>

main_exit ==
    /\ pc = "returned"
    /\ exit("closed")

\* print(json.dumps(result, indent=4, ensure_ascii=False))
main_print ==
    /\ pc = "closed"
    /\ emit(sys_stdout, [json |-> TRUE, obj |-> result])
    /\ pc' = "done"
    /\ UNCHANGED << streams, env, locals >>

Next ==
    \/ main_usage
    \/ load_models
    \/ main_enter
    \/ stage_extract
    \/ stage_detect
    \/ stage_translate_title
    \/ stage_translate_text
    \/ stage_summarize
    \/ stage_keywords
    \/ main_exit
    \/ main_print

Spec == Init /\ [][Next]_vars

----------------------------------------------------------------------------
(* Properties *)

\* process_url has returned to main
Returned == pc \in {"returned", "closed"} \/ (pc = "done" /\ Len(calls) > 0)

Invoked(stage) == \E i \in 1..Len(calls) : calls[i].stage = stage

AllSucceeded == \A i \in 1..Len(calls) : calls[i].outcome = "ok"

OkShape(r) ==
    /\ DOMAIN r = {"status", "title", "translated_title", "author", "date", "keywords", "text"}
    /\ r.status = "ok"

ErrorShape(r) ==
    /\ DOMAIN r = {"status", "error"}
    /\ r.status = "error"

\* C1: whatever each stage does (succeed or raise), process_url returns to
\* its caller, no exception leaves it, and the record it returns is either
\* an "ok" record with exactly title, translated_title, author, date,
\* keywords and text, or an "error" record with exactly an error field.
C1_OneOfTwoShapes ==
    /\ pc # "propagated"
    /\ (\E i \in 1..Len(calls) : calls[i].outcome = "raise") => Returned
    /\ Returned => (OkShape(result) \/ ErrorShape(result))

C1_Witness ==
    /\ pc = "done"
    /\ Len(calls) > 0
    /\ calls[Len(calls)] = Raised("extract_keywords", "out of memory")
    /\ ErrorShape(result)

\* C2: when the extractor's body is the "not_found" sentinel, the result is
\* exactly {status: "error", error: "Main content not found."}, whatever
\* the other fields are, and no stage after extraction is invoked.
C2_NotFoundShortCircuits ==
    body = NotFound =>
        /\ Returned
        /\ result = [status |-> "error", error |-> "Main content not found."]
        /\ Len(calls) = 1
        /\ calls[1].stage = "extract_with_goose"
        /\ genCalls = << >>

C2_Witness ==
    /\ pc = "done"
    /\ body = NotFound
    /\ title = "Le Chat"
    /\ author = "Ann"
    /\ goose_keywords = << "ai", "ml" >>
    /\ result = [status |-> "error", error |-> "Main content not found."]

\* C3: when the detected language is "en", neither translate_title nor
\* translate_text is invoked, summarization and keyword extraction receive
\* the extracted body unchanged, and an "ok" result has translated_title
\* equal to title.
C3_EnglishIsNotTranslated ==
    lang = "en" =>
        /\ ~Invoked("translate_title")
        /\ ~Invoked("translate_text")
        /\ genCalls = << >>
        /\ ~tt_failed
        /\ content = body
        /\ (\E i \in 1..Len(calls) : calls[i].stage = "summarize_text") => sum_arg = body
        /\ (\E i \in 1..Len(calls) : calls[i].stage = "extract_keywords") => kw_arg = body
        /\ result.status = "ok" => (result.translated_title = result.title /\ result.title = title)

C3_Witness ==
    /\ pc = "done"
    /\ lang = "en"
    /\ result.status = "ok"
    /\ result.translated_title = "Le Chat"
    /\ sum_arg = body
    /\ kw_arg = body

\* C4: when the language is not English, translate_title returned "" or the
\* title itself (also when the translator raised inside it) and every stage
\* succeeded, the result is "ok" with translated_title exactly
\* "Translation not available.".
C4_UnchangedTitleIsReplaced ==
    ( /\ Returned
      /\ lang # "en"
      /\ Invoked("translate_title")
      /\ tt_ret \in {"", title}
      /\ AllSucceeded )
    => /\ result.status = "ok"
       /\ result.translated_title = "Translation not available."

C4_Witness ==
    /\ pc = "done"
    /\ lang = "fr"
    /\ tt_failed
    /\ tt_ret = "Le Chat"
    /\ title = "Le Chat"
    /\ result.status = "ok"
    /\ result.translated_title = "Translation not available."

\* C5: extract_keywords returns a list whose elements all occur in the
\* hints or in the candidates, with no string twice, of length
\* min(5, number of distinct strings of hints and candidates together).
C5_KeywordsMerged ==
    pc = "keywords" =>
        LET all == ToSet(goose_keywords) \cup ToSet(cands)
        IN  /\ \A i \in 1..Len(keywords) : keywords[i] \in all
            /\ \A i, j \in 1..Len(keywords) : i # j => keywords[i] # keywords[j]
            /\ Len(keywords) <= 5
            /\ Len(keywords) = (IF Cardinality(all) < 5 THEN Cardinality(all) ELSE 5)

C5_Witness ==
    /\ pc = "keywords"
    /\ goose_keywords = << "ai", "ml" >>
    /\ Cardinality(ToSet(cands)) = 5
    /\ Len(keywords) = 5
    /\ keywords[1] = "news"

PipelineRan == Len(calls) > 0

ScopeOpen ==
    pc \in {"extract", "detect", "translate_title", "translate_text",
            "summarize", "keywords", "returned"}

\* C6: every finished run of main has written exactly one JSON object, and
\* nothing else, to the caller's standard output; while the suppressor's
\* scope is open nothing reaches it, and the pipeline's result is written
\* after the scope has closed, when sys.stdout is the caller's stream again.
C6_OneJsonObject ==
    /\ Len(written[stdout0]) <= 1
    /\ \A i \in 1..Len(written[stdout0]) : written[stdout0][i].json
    /\ pc \in {"done", "exited"} => Len(written[stdout0]) = 1
    /\ ScopeOpen => (sys_stdout = DevNull /\ written[stdout0] = << >>)
    /\ pc = "closed" => (sys_stdout = stdout0 /\ written[stdout0] = << >>)
    /\ (pc = "done" /\ PipelineRan) =>
          (sys_stdout = stdout0 /\ written[stdout0] = << [json |-> TRUE, obj |-> result] >>)

C6_Witness ==
    /\ pc = "done"
    /\ tt_failed
    /\ discarded = 1
    /\ result.status = "ok"
    /\ written[stdout0] = << [json |-> TRUE, obj |-> result] >>

\* C7: inside the with block both sys.stdout and sys.stderr are the discard
\* sink; after the block, whether it completed or raised, both point to the
\* streams they pointed to just before entry.
C7_StreamsRestored ==
    /\ pc \in {"block", "block_completed", "block_raised"} =>
          (sys_stdout = DevNull /\ sys_stderr = DevNull)
    /\ pc \in {"after_with", "propagated"} =>
          (sys_stdout = stdout0 /\ sys_stderr = stderr0)

C7_Witness ==
    /\ pc = "propagated"
    /\ stdout0 = "pipe"
    /\ stderr0 = "tty"
    /\ sys_stdout = "pipe"
    /\ sys_stderr = "tty"
    /\ discarded = 2

\* C8: translate_text calls the model once on each unit of the partition of
\* the text, in order, and returns the translations of the units in that
\* order, joined by single spaces.
C8_OrderPreserved ==
    pc = "translated" =>
        LET units == re_split(body)
            n == Len(units)
            t == [i \in 1..n |-> generate(units[i])]
            Before(i) == LET RECURSIVE sum(_)
                             sum(k) == IF k = 0 THEN 0 ELSE Len(t[k]) + 1 + sum(k - 1)
                         IN  sum(i - 1)
        IN  /\ genCalls = units
            /\ n >= 1
            /\ Len(content) = Before(n) + Len(t[n])
            /\ \A i \in 1..n : \A j \in 1..Len(t[i]) : content[Before(i) + j] = t[i][j]
            /\ \A i \in 2..n : content[Before(i)] = " "

C8_Witness ==
    /\ pc = "translated"
    /\ body = << "a", ".", " ", "b" >>
    /\ genCalls = << << "a", "." >>, << "b" >> >>
    /\ content = << "x", ".", " ", "y" >>

IsPrefix(p, q) == Len(p) <= Len(q) /\ \A i \in 1..Len(p) : p[i] = q[i]

StagesEnglish ==
    << "extract_with_goose", "detect", "summarize_text", "clean_text", "extract_keywords" >>

StagesOther ==
    << "extract_with_goose", "detect", "translate_title", "translate_text",
       "summarize_text", "clean_text", "extract_keywords" >>

\* C9: the stages run in the order extraction, detection, (non-English
\* only) title translation, body translation, summarization, normalization,
\* keyword extraction, each at most once and only after every earlier one
\* succeeded; after the first stage that raises none is invoked and the
\* result is {status: "error", error: <the exception's message>}.
C9_StagesInOrder ==
    LET names == [i \in 1..Len(calls) |-> calls[i].stage]
    IN  /\ lang = "en" => IsPrefix(names, StagesEnglish)
        /\ lang # "en" => IsPrefix(names, StagesOther)
        /\ lang = "" => Len(names) <= 2
        /\ \A i \in 1..Len(calls) : i < Len(calls) => calls[i].outcome = "ok"
        /\ (Len(calls) > 0 /\ calls[Len(calls)].outcome = "raise") =>
              (Returned /\ result = [status |-> "error", error |-> calls[Len(calls)].msg])
        /\ result.status = "ok" => (AllSucceeded /\ Len(names) = (IF lang = "en" THEN 5 ELSE 7))

C9_Witness ==
    /\ pc = "done"
    /\ lang = "fr"
    /\ Len(calls) = 5
    /\ calls[5] = Raised("summarize_text", "out of memory")
    /\ result = [status |-> "error", error |-> "out of memory"]

\* C10: no unit handed to the translation model holds a sentence terminator
\* ('.', '!' or '?') followed by whitespace (space, tab or newline).
C10_NoTerminatorInsideUnit ==
    pc = "translated" =>
        \A u \in 1..Len(genCalls) :
            \A i \in 1..Len(genCalls[u]) :
                i < Len(genCalls[u]) =>
                    ~(genCalls[u][i] \in {".", "!", "?"} /\ genCalls[u][i + 1] \in {" ", "\t", "\n"})

====
